---------------------------- MODULE Spec2Model ----------------------------
(***************************************************************************)
(* Neoprene / Byzantine: exact rationals, rational intervals, the interval *)
(* evaluator of expression trees and the comparison driver.                *)
(*                                                                         *)
(* A Rational is the record [sign, numer, denom] of src/src/rational.rs;   *)
(* a RationalRange is [min, max]; a panic!() of the program is the value   *)
(* Panic, which every caller hands on as the unwinding does.               *)
(***************************************************************************)
EXTENDS Integers, Sequences, FiniteSets, TLC

VARIABLES
    \* neoprene_comp: its arguments, its locals and where it stands
    a, b, max_iterations, current_iterations, current_limit_denom,
    a_range, b_range, pc, result, rounds,
    \* one call of a pure operation: the receiver, the argument, the
    \* numeric parameter, the operation applied and what it left behind
    self, rhs, param, fn, ret

compVars == <<a, b, max_iterations, current_iterations, current_limit_denom,
              a_range, b_range, pc, result, rounds>>
callVars == <<self, rhs, param, fn, ret>>
vars == <<a, b, max_iterations, current_iterations, current_limit_denom,
          a_range, b_range, pc, result, rounds, self, rhs, param, fn, ret>>

----------------------------------------------------------------------------
(* Bounds of the model *)

MaxNumer == 4
MaxDenom == 4
MaxRangeNumer == 3
MaxRangeDenom == 2
MaxNewDenom == 3
MaxExpNumer == 2
MaxRoot == 3
MaxNewton == 2
MaxLimitDenom == 3
MaxIterations == 3
MaxCanonParam == 3
MaxInserts == 3
MaxContribs == 3
MaxOrdContribs == 1
MaxPiTerms == 8
MaxEulerIter == 4
MaxSeriesDenom == 5
MaxBaseNumer == 10
MaxBaseDenom == 10

----------------------------------------------------------------------------
(* `let v = e;` and the passing of an argument: e is evaluated once and F
   is applied to its value *)

Let(e, F(_)) == CHOOSE r \in {F(v) : v \in {e}} : TRUE

----------------------------------------------------------------------------
(* panic!() *)

\* no interval evaluated yet
NoRange == [none |-> TRUE]

Panic == [panic |-> TRUE]
IsPanic(x) == "panic" \in DOMAIN x

----------------------------------------------------------------------------
(* src/src/rational.rs *)

RECURSIVE gcd_loop(_, _)
gcd_loop(x, y) ==
    IF y > 0 THEN Let(x % y, LAMBDA rem : gcd_loop(y, rem)) ELSE x

gcd(a0, b0) ==
    Let(a0, LAMBDA a_r : Let(b0, LAMBDA b_r :
        IF a_r = b_r THEN a_r
        ELSE IF b_r > a_r THEN gcd_loop(b_r, a_r) ELSE gcd_loop(a_r, b_r)))

lcm(a0, b0) ==
    Let(a0, LAMBDA a_r : Let(b0, LAMBDA b_r :
        IF a_r = b_r THEN a_r
        ELSE (b_r \div gcd(a_r, b_r)) * a_r))

Sign_not(s) == IF s = "Pos" THEN "Neg" ELSE "Pos"

Sign_bitxor(s, t) == IF s = t THEN "Pos" ELSE "Neg"

Rat(s, n, d) == [sign |-> s, numer |-> n, denom |-> d]

\* simplify: divide by the gcd when it is not 1; a zero denominator panics
\* (BigUint's division by a zero gcd panics as well)
simplify(r0) ==
    Let(r0, LAMBDA r :
    Let(gcd(r.numer, r.denom), LAMBDA g :
        IF g = 0 THEN Panic
        ELSE IF r.denom \div g = 0 THEN Panic
        ELSE Rat(r.sign, r.numer \div g, r.denom \div g)))

Rational_new(s, n, d) == simplify(Rat(s, n, d))

is_zero(r) == r.numer = 0

is_one(r) == r.numer # 0 /\ r.numer = r.denom

is_negative(r) == ~is_zero(r) /\ r.sign = "Neg"

is_simplified(r) == gcd(r.numer, r.denom) = 1

is_int(r) == IF r.denom = 1 THEN TRUE ELSE gcd(r.numer, r.denom) = r.denom

is_denom_odd(r) == r.denom % 2 = 1

Abs(i) == IF i < 0 THEN -i ELSE i

\* From<isize>: is_positive() is false of 0, so 0 is stored with sign Neg
Rational_from(i) == Rat(IF i > 0 THEN "Pos" ELSE "Neg", Abs(i), 1)

\* From<(isize, isize)>
Rational_from_pair(n, d) ==
    Rat(IF (n > 0) # (d > 0) THEN "Neg" ELSE "Pos", Abs(n), Abs(d))

Rational_zero == Rational_from(0)

Rational_one == Rational_from(1)

negate(r) == Rat(Sign_not(r.sign), r.numer, r.denom)

invert(r) == IF r.numer = 0 THEN Panic ELSE Rat(r.sign, r.denom, r.numer)

\* the match of add_assign / sub_assign on (self.sign, sign of the right
\* side, self.numer > rhs_normalized_numer), after both numerators are put
\* over the lcm of the denominators
add_match(s, n, d, rs, rn) ==
    IF s = rs THEN Rat(s, n + rn, d)
    ELSE IF s = "Pos" THEN
        IF n > rn THEN Rat("Pos", n - rn, d) ELSE Rat("Neg", rn - n, d)
    ELSE
        IF n > rn THEN Rat("Neg", n + rn, d) ELSE Rat("Pos", rn - n, d)

Rational_add_assign(x0, y0) ==
    Let(x0, LAMBDA x : Let(y0, LAMBDA y :
        IF x.denom = 0 \/ y.denom = 0 THEN Panic
        ELSE
    Let(lcm(x.denom, y.denom), LAMBDA denom_lcm :
        LET self_factor == denom_lcm \div x.denom
            rhs_factor == denom_lcm \div y.denom
            rhs_normalized_numer == y.numer * rhs_factor
        IN  simplify(add_match(x.sign, x.numer * self_factor,
                               x.denom * self_factor,
                               y.sign, rhs_normalized_numer)))))

Rational_sub_assign(x0, y0) ==
    Let(x0, LAMBDA x : Let(y0, LAMBDA y :
        IF x.denom = 0 \/ y.denom = 0 THEN Panic
        ELSE
    Let(lcm(x.denom, y.denom), LAMBDA denom_lcm :
        LET self_factor == denom_lcm \div x.denom
            rhs_factor == denom_lcm \div y.denom
            rhs_normalized_numer == y.numer * rhs_factor
        IN  simplify(add_match(x.sign, x.numer * self_factor,
                               x.denom * self_factor,
                               Sign_not(y.sign), rhs_normalized_numer)))))

Rational_mul_assign(x0, y0) ==
    Let(x0, LAMBDA x : Let(y0, LAMBDA y :
        simplify(Rat(Sign_bitxor(x.sign, y.sign),
                     x.numer * y.numer, x.denom * y.denom))))

Rational_div_assign(x0, y0) ==
    Let(x0, LAMBDA x : Let(y0, LAMBDA y :
        simplify(Rat(Sign_bitxor(x.sign, y.sign),
                     x.numer * y.denom, x.denom * y.numer))))

\* PartialEq: the first test reads other.denom
Rational_eq(x0, y0) ==
    Let(x0, LAMBDA x : Let(y0, LAMBDA y :
        IF x.numer = 0 /\ y.denom = 0 THEN TRUE
        ELSE IF x.sign # y.sign THEN FALSE
        ELSE IF x.numer = y.numer /\ x.denom = y.denom THEN TRUE
        ELSE
    Let(lcm(x.denom, y.denom), LAMBDA denom_lcm :
        LET p == (denom_lcm \div x.denom) * x.numer
            q == (denom_lcm \div y.denom) * y.numer
        IN  p = q)))

\* cmp without its first test for two zeros
Rational_cmp_no_zero_test(x0, y0) ==
    Let(x0, LAMBDA x : Let(y0, LAMBDA y :
        IF x.sign = "Pos" /\ y.sign = "Neg" THEN "Greater"
        ELSE IF x.sign = "Neg" /\ y.sign = "Pos" THEN "Less"
        ELSE IF x.numer = y.numer /\ x.denom = y.denom THEN "Equal"
        ELSE
    Let(lcm(x.denom, y.denom), LAMBDA denom_lcm :
        LET p == (denom_lcm \div x.denom) * x.numer
            q == (denom_lcm \div y.denom) * y.numer
        IN  IF p = q THEN "Equal"
            ELSE IF p > q
                 THEN (IF x.sign = "Pos" THEN "Greater" ELSE "Less")
                 ELSE (IF x.sign = "Pos" THEN "Less" ELSE "Greater"))))

Rational_cmp(x0, y0) ==
    Let(x0, LAMBDA x : Let(y0, LAMBDA y :
        IF x.numer = 0 /\ y.numer = 0 THEN "Equal"
        ELSE IF x.sign = "Pos" /\ y.sign = "Neg" THEN "Greater"
        ELSE IF x.sign = "Neg" /\ y.sign = "Pos" THEN "Less"
        ELSE IF x.numer = y.numer /\ x.denom = y.denom THEN "Equal"
        ELSE
    Let(lcm(x.denom, y.denom), LAMBDA denom_lcm :
        LET p == (denom_lcm \div x.denom) * x.numer
            q == (denom_lcm \div y.denom) * y.numer
        IN  IF p = q THEN "Equal"
            ELSE IF p > q
                 THEN (IF x.sign = "Pos" THEN "Greater" ELSE "Less")
                 ELSE (IF x.sign = "Pos" THEN "Less" ELSE "Greater"))))

\* the operators <, > that PartialOrd derives from cmp
Rational_lt(x, y) == Rational_cmp(x, y) = "Less"

Rational_gt(x, y) == Rational_cmp(x, y) = "Greater"

RECURSIVE IntPow(_, _)
IntPow(x, e) == IF e = 0 THEN 1 ELSE x * IntPow(x, e - 1)

\* powi: exponent 0 gives one, exponent 1 leaves self, an exponent above
\* 12 panics, an even exponent makes the sign Pos
powi(r0, exp) ==
    Let(r0, LAMBDA r :
        IF exp = 0 THEN Rational_one
        ELSE IF exp = 1 THEN r
        ELSE IF exp > 12 THEN Panic
        ELSE Rat(IF exp % 2 = 0 THEN "Pos" ELSE r.sign,
                 IntPow(r.numer, exp), IntPow(r.denom, exp)))

\* to_with_denominator: the new numerator is
\* (new_denom / denom) * numer + ((new_denom % denom) * numer) / denom,
\* one more when round_up; the sign is kept
Rational_to_with_denominator(r0, new_denom, round_up) ==
    Let(r0, LAMBDA r :
        IF r.denom = 0 THEN Panic
        ELSE
        LET new_mod_old == new_denom % r.denom
            new_div_old == new_denom \div r.denom
            n == new_div_old * r.numer + ((new_mod_old * r.numer) \div r.denom)
        IN  Rat(r.sign, IF round_up THEN n + 1 ELSE n, new_denom))

----------------------------------------------------------------------------
(* src/src/rational_range.rs *)

Range(lo, hi) == [min |-> lo, max |-> hi]

RationalRange_to_with_denominator(r0, new_denom) ==
    Let(r0, LAMBDA r :
        Range(Rational_to_with_denominator(r.min, new_denom, FALSE),
              Rational_to_with_denominator(r.max, new_denom, FALSE)))

descriptor(r0) ==
    Let(r0, LAMBDA r :
        IF ~is_negative(r.min) /\ ~is_negative(r.max) THEN "BothPos"
        ELSE IF is_negative(r.min) /\ is_negative(r.max) THEN "BothNeg"
        ELSE IF is_negative(r.min) /\ ~is_negative(r.max) THEN "OverlapZero"
        ELSE "panic")

reciprocate(r0) ==
    Let(r0, LAMBDA r :
    Let(descriptor(r), LAMBDA d :
        IF d = "panic" \/ d = "OverlapZero" THEN Panic
        ELSE IF IsPanic(invert(r.min)) \/ IsPanic(invert(r.max)) THEN Panic
        ELSE Range(invert(r.max), invert(r.min))))

\* From<(Rational, Rational)>
RationalRange_from(lo0, hi0) ==
    Let(lo0, LAMBDA lo : Let(hi0, LAMBDA hi :
        IF Rational_gt(lo, hi) THEN Panic ELSE Range(lo, hi)))

\* From<(isize, isize)>
RationalRange_from_isize(lo, hi) ==
    IF lo > hi THEN Panic ELSE Range(Rational_from(lo), Rational_from(hi))

RationalRange_add_assign(x0, y0) ==
    Let(x0, LAMBDA x : Let(y0, LAMBDA y :
        Range(Rational_add_assign(x.min, y.min),
              Rational_add_assign(x.max, y.max))))

\* the (OverlapZero, OverlapZero) arm of mul_assign
mul_assign_overlap(x0, y0) ==
    Let(x0, LAMBDA x : Let(y0, LAMBDA y :
    Let(Rational_mul_assign(x.max, y.min), LAMBDA min_branch :
    Let(Rational_mul_assign(x.min, y.min), LAMBDA max_branch :
    Let(Rational_mul_assign(x.min, y.max), LAMBDA min1 :
    Let(Rational_mul_assign(x.max, y.max), LAMBDA max1 :
        Range(IF Rational_lt(min1, min_branch) THEN min_branch ELSE min1,
              IF Rational_lt(max1, max_branch) THEN max_branch ELSE max1)))))))

RationalRange_mul_assign(x0, y0) ==
    Let(x0, LAMBDA x : Let(y0, LAMBDA y :
    Let(descriptor(x), LAMBDA dx : Let(descriptor(y), LAMBDA dy :
    LET M(p, q) == Rational_mul_assign(p, q)
    IN  IF dx = "panic" \/ dy = "panic" THEN Panic
        ELSE IF dx = "BothPos" /\ dy = "BothPos"
            THEN Range(M(x.min, y.min), M(x.max, y.max))
        ELSE IF dx = "BothNeg" /\ dy = "BothNeg"
            THEN Range(M(x.max, y.max), M(x.min, y.min))
        ELSE IF dx = "BothPos" /\ dy = "BothNeg"
            THEN Range(M(x.max, y.min), M(x.min, y.max))
        ELSE IF dx = "BothPos" /\ dy = "OverlapZero"
            THEN Range(M(x.max, y.min), M(x.max, y.max))
        ELSE IF dx = "BothNeg" /\ dy = "BothPos"
            THEN Range(M(x.min, y.max), M(x.max, y.min))
        ELSE IF dx = "BothNeg" /\ dy = "OverlapZero"
            THEN Range(M(x.min, y.max), M(x.min, y.min))
        ELSE IF dx = "OverlapZero" /\ dy = "BothPos"
            THEN Range(M(x.min, y.max), M(x.max, y.max))
        ELSE IF dx = "OverlapZero" /\ dy = "BothNeg"
            THEN Range(M(x.max, y.min), M(x.min, y.min))
        ELSE mul_assign_overlap(x, y)))))

----------------------------------------------------------------------------
(* src/src/neoprene_taylor.rs *)

\* the calls here pass values of 1 .. 2^32 - 1, which have one u32 digit
biguint_to_u32(x) == x

rational_range_midpoint(x) ==
    Let(Rational_add_assign(x.min, x.max), LAMBDA s :
        simplify(Rat(s.sign, s.numer, s.denom * 2)))

\* BigUint::nth_root: the floor of the root
IntRoot(n, root) ==
    CHOOSE r \in 0..n : IntPow(r, root) <= n /\ IntPow(r + 1, root) > n

\* min_root with the denominator denom_root, the `+ 1` left out
initial_root_bounds_same_denom(base, root) ==
    Let(IntRoot(base.numer, biguint_to_u32(root)), LAMBDA numer_root :
    Let(IntRoot(base.denom, biguint_to_u32(root)), LAMBDA denom_root :
        RationalRange_from(Rat("Pos", numer_root, denom_root),
                           Rat("Pos", numer_root + 1, denom_root))))

initial_root_bounds(base, root) ==
    Let(IntRoot(base.numer, biguint_to_u32(root)), LAMBDA numer_root :
    Let(IntRoot(base.denom, biguint_to_u32(root)), LAMBDA denom_root :
        RationalRange_from(Rat("Pos", numer_root, denom_root + 1),
                           Rat("Pos", numer_root + 1, denom_root))))

\* derivative_interval.min (or max): powi(root - 1), numer *= root, simplify
derivative_endpoint(g, root) ==
    Let(powi(g, root - 1), LAMBDA p :
        IF IsPanic(p) THEN Panic
        ELSE simplify(Rat(p.sign, p.numer * root, p.denom)))

\* the end of one pass of the loop of nth_root, from midpoint and the
\* interval f_midpoint / derivative_interval on
newton_new_guess(midpoint, f_div, limit_denom) ==
    Let(Rational_sub_assign(midpoint, f_div.max), LAMBDA new_guess_min :
    Let(Rational_sub_assign(midpoint, f_div.min), LAMBDA new_guess_max :
    Let(RationalRange_from(new_guess_min, new_guess_max), LAMBDA g :
        IF IsPanic(g) THEN Panic
        ELSE RationalRange_to_with_denominator(g, limit_denom))))

\* one pass of the loop of nth_root
newton_step(current_guess, base, root, limit_denom) ==
    Let(rational_range_midpoint(current_guess), LAMBDA midpoint :
    Let(powi(midpoint, root), LAMBDA m_pow :
    Let(derivative_endpoint(current_guess.min, root), LAMBDA d_min :
    Let(derivative_endpoint(current_guess.max, root), LAMBDA d_max :
        IF IsPanic(m_pow) \/ IsPanic(d_min) \/ IsPanic(d_max) THEN Panic
        ELSE
    Let(Rational_sub_assign(m_pow, base), LAMBDA f_midpoint :
    Let(Rational_div_assign(f_midpoint, d_min), LAMBDA qa :
    Let(Rational_div_assign(f_midpoint, d_max), LAMBDA qb :
        IF IsPanic(qa) \/ IsPanic(qb) THEN Panic
        ELSE newton_new_guess(midpoint,
                 IF Rational_gt(qa, qb) THEN RationalRange_from(qb, qa)
                                        ELSE RationalRange_from(qa, qb),
                 limit_denom))))))))

RECURSIVE nth_root_loop(_, _, _, _, _)
nth_root_loop(current_guess, base, root, k, limit_denom) ==
    IF k = 0 \/ IsPanic(current_guess) THEN current_guess
    ELSE Let(newton_step(current_guess, base, root, limit_denom), LAMBDA g :
             nth_root_loop(g, base, root, k - 1, limit_denom))

nth_root(base, root, newton_iterations, limit_denom) ==
    Let(initial_root_bounds(base, root), LAMBDA g :
        nth_root_loop(g, base, root, biguint_to_u32(newton_iterations), limit_denom))

\* both calls of nth_root are given base.min
nth_root_range(base, root, newton_iterations, limit_denom) ==
    Let(nth_root(base.min, root, newton_iterations, limit_denom), LAMBDA base_min_range :
    Let(nth_root(base.min, root, newton_iterations, limit_denom), LAMBDA base_max_range :
        IF IsPanic(base_min_range) \/ IsPanic(base_max_range) THEN Panic
        ELSE IF Rational_gt(base_min_range.min, base_max_range.max)
            THEN RationalRange_from(base_min_range.max, base_max_range.min)
            ELSE RationalRange_from(base_min_range.min, base_max_range.max)))

\* the end of rational_range_pow: the clamp at zero and the reciprocal
pow_finish(pow_a, pow_range, exp) ==
    Let(IF descriptor(pow_a) = "OverlapZero"
           /\ ~is_negative(pow_range.min) /\ ~is_negative(pow_range.max)
        THEN Range(Rational_zero, pow_range.max)
        ELSE pow_range, LAMBDA clamped :
        IF is_negative(exp) THEN reciprocate(clamped) ELSE clamped)

\* rational_range_pow from `let mut a = base.clone()` on
pow_after_checks(base, exp, newton_iterations, limit_denom) ==
    Let(powi(base.min, exp.numer), LAMBDA a_min :
    Let(powi(base.max, exp.numer), LAMBDA a_max :
        IF IsPanic(a_min) \/ IsPanic(a_max) THEN Panic
        ELSE
    Let(nth_root_range(Range(a_min, a_max), exp.denom, newton_iterations, limit_denom),
        LAMBDA pow_range :
        IF IsPanic(pow_range) THEN Panic
        ELSE IF descriptor(Range(a_min, a_max)) = "panic" THEN Panic
        ELSE pow_finish(Range(a_min, a_max), pow_range, exp))))

\* the test of rational_range_pow under the comment `If base is negative,
\* exp.denom must be odd to have a real root`: TRUE when it panics
range_pow_rejects(base, exp) ==
    (is_negative(base.min) \/ is_negative(base.max)) /\ is_denom_odd(exp)

rational_range_pow(base, exp, newton_iterations, limit_denom) ==
    IF ~is_simplified(exp) THEN Panic
    ELSE IF is_zero(exp) THEN Panic
    ELSE IF is_one(exp) THEN base
    ELSE IF Rational_gt(exp, Rational_from(8)) THEN Panic
    ELSE IF range_pow_rejects(base, exp) THEN Panic
    ELSE pow_after_checks(base, exp, newton_iterations, limit_denom)

----------------------------------------------------------------------------
(* src/src/byzantine.rs, src/src/generate_byznode_utils.rs: expression nodes *)

TransitiveConst(c) == [type |-> "TransitiveConst", transitive_const |-> c]

\* GBU::add on a new ByzNodeCoefficientAddVec (rational_part from(0)):
\* insert_rational adds rat; terms is the vec the inserts leave
AddNode(rat, terms) ==
    [type |-> "Add",
     rational_part |-> Rational_add_assign(Rational_from(0), rat),
     vec |-> terms]

\* GBU::mul on a new ByzNodePowerMulVec (rational_part from(1)):
\* insert_rational multiplies by rat
MulNode(rat, terms) ==
    [type |-> "Mul",
     rational_part |-> Rational_mul_assign(Rational_from(1), rat),
     vec |-> terms]

PowNode(base, exp) == [type |-> "Pow", base |-> base, exp |-> exp]

----------------------------------------------------------------------------
(* src/src/byzantine.rs: PartialEq and Ord for ByzNode;
   src/src/byznode_sorted_vec.rs: util_eq, util_cmp, ByzNodeVec::insert *)

to_identifying_type_int(n) ==
    IF n.type = "TransitiveConst" THEN 0
    ELSE IF n.type = "Add" THEN 1
    ELSE IF n.type = "Mul" THEN 2
    ELSE 3

\* the derived Ord of TransitiveConsts: Pi < Euler
TransitiveConsts_cmp(c, d) ==
    IF c = d THEN "Equal" ELSE IF c = "Pi" THEN "Less" ELSE "Greater"

\* Ord for usize
usize_cmp(i, j) == IF i < j THEN "Less" ELSE IF i = j THEN "Equal" ELSE "Greater"

RECURSIVE ByzNode_eq(_, _)
RECURSIVE ByzNode_cmp(_, _)
RECURSIVE vec_eq_loop(_, _, _)
RECURSIVE vec_cmp_loop(_, _, _)

\* the loop of util_eq from index i on: vec[i] != other_vec[i] compares the
\* Rational and then the node of the tuples
vec_eq_loop(vec, other_vec, i) ==
    IF i > Len(vec) THEN TRUE
    ELSE IF ~(/\ Rational_eq(vec[i][1], other_vec[i][1])
              /\ ByzNode_eq(vec[i][2], other_vec[i][2])) THEN FALSE
    ELSE vec_eq_loop(vec, other_vec, i + 1)

util_eq(n, m) ==
    IF ~Rational_eq(n.rational_part, m.rational_part) THEN FALSE
    ELSE IF Len(n.vec) # Len(m.vec) THEN FALSE
    ELSE vec_eq_loop(n.vec, m.vec, 1)

\* Ord for Vec<(Rational, Rc<ByzNode>)>: the first tuples that differ
\* decide, by the Rational and then by the node; then the lengths
vec_cmp_loop(vec, other_vec, i) ==
    IF i > Len(vec) \/ i > Len(other_vec)
    THEN usize_cmp(Len(vec), Len(other_vec))
    ELSE Let(Rational_cmp(vec[i][1], other_vec[i][1]), LAMBDA c0 :
         IF c0 # "Equal" THEN c0
         ELSE Let(ByzNode_cmp(vec[i][2], other_vec[i][2]), LAMBDA c1 :
              IF c1 # "Equal" THEN c1
              ELSE vec_cmp_loop(vec, other_vec, i + 1)))

util_cmp(n, m) ==
    Let(vec_cmp_loop(n.vec, m.vec, 1), LAMBDA vec_cmp :
        IF vec_cmp = "Equal"
        THEN Rational_cmp(n.rational_part, m.rational_part)
        ELSE vec_cmp)

ByzNode_eq(n, m) ==
    IF n.type = "TransitiveConst" /\ m.type = "TransitiveConst"
        THEN n.transitive_const = m.transitive_const
    ELSE IF n.type = "Add" /\ m.type = "Add" THEN util_eq(n, m)
    ELSE IF n.type = "Mul" /\ m.type = "Mul" THEN util_eq(n, m)
    ELSE IF n.type = "Pow" /\ m.type = "Pow"
        THEN Rational_eq(n.exp, m.exp) /\ ByzNode_eq(n.base, m.base)
    ELSE FALSE

ByzNode_cmp(n, m) ==
    IF n.type = "TransitiveConst" /\ m.type = "TransitiveConst"
        THEN TransitiveConsts_cmp(n.transitive_const, m.transitive_const)
    ELSE IF n.type = "Add" /\ m.type = "Add" THEN util_cmp(n, m)
    ELSE IF n.type = "Mul" /\ m.type = "Mul" THEN util_cmp(n, m)
    ELSE IF n.type = "Pow" /\ m.type = "Pow"
        THEN Let(ByzNode_cmp(n.base, m.base), LAMBDA base_cmp :
                 IF base_cmp = "Equal" THEN Rational_cmp(n.exp, m.exp)
                 ELSE base_cmp)
    ELSE usize_cmp(to_identifying_type_int(n), to_identifying_type_int(m))

\* slice::binary_search_by with |x| x.1.cmp(&item.1): [found |-> TRUE,
\* index |-> the entry that compares Equal] or [found |-> FALSE, index |->
\* the place to insert at]; left and right are 0-based as in the slice
RECURSIVE binary_search_loop(_, _, _, _)
binary_search_loop(vec, node, left, right) ==
    IF left >= right THEN [found |-> FALSE, index |-> left + 1]
    ELSE Let(left + ((right - left) \div 2), LAMBDA mid :
         Let(ByzNode_cmp(vec[mid + 1][2], node), LAMBDA c :
             IF c = "Less" THEN binary_search_loop(vec, node, mid + 1, right)
             ELSE IF c = "Greater" THEN binary_search_loop(vec, node, left, mid)
             ELSE [found |-> TRUE, index |-> mid + 1]))

\* a search that finds no entry and gives the end of the slice
binary_search_none(vec, node) == [found |-> FALSE, index |-> Len(vec) + 1]

binary_search_by(vec, node) == binary_search_loop(vec, node, 0, Len(vec))

\* Vec::remove and Vec::insert at a 1-based index
Vec_remove(vec, index) ==
    SubSeq(vec, 1, index - 1) \o SubSeq(vec, index + 1, Len(vec))

Vec_insert(vec, index, element) ==
    SubSeq(vec, 1, index - 1) \o <<element>> \o SubSeq(vec, index, Len(vec))

\* ByzNodeVec::insert on the vec of a ByzNodeCoefficientAddVec or a
\* ByzNodePowerMulVec; item is <<Rational, ByzNode>>
insert(vec, item) ==
    Let(binary_search_by(vec, item[2]), LAMBDA found :
        IF found.found
        THEN Let(Rational_add_assign(vec[found.index][1], item[1]), LAMBDA sum :
                 IF Rational_eq(sum, Rational_from(0))
                 THEN Vec_remove(vec, found.index)
                 ELSE [vec EXCEPT ![found.index] = <<sum, vec[found.index][2]>>])
        ELSE Vec_insert(vec, found.index, item))

\* ByzNodeVec::insert_single
insert_single(vec, node) == insert(vec, <<Rational_from(1), node>>)

----------------------------------------------------------------------------
(* src/src/generate_byznode_utils.rs: add and mul with their loops *)

\* Option<Rational>: None
None == [none |-> TRUE]

IsNone(o) == "none" \in DOMAIN o

\* the loop `for i in vec` of add and of mul: None is inserted as
\* Rational::one()
RECURSIVE insert_all(_, _, _)
insert_all(c_vec, contributions, i) ==
    IF i > Len(contributions) THEN c_vec
    ELSE Let(insert(c_vec,
                    <<IF IsNone(contributions[i][1]) THEN Rational_one
                      ELSE contributions[i][1],
                      contributions[i][2]>>), LAMBDA next :
             insert_all(next, contributions, i + 1))

GBU_add(rat, contributions) == AddNode(rat, insert_all(<<>>, contributions, 1))

\* mul: rat is an Option; None leaves rational_part at Rational::from(1)
GBU_mul(rat, contributions) ==
    IF IsNone(rat)
    THEN [type |-> "Mul", rational_part |-> Rational_from(1),
          vec |-> insert_all(<<>>, contributions, 1)]
    ELSE MulNode(rat, insert_all(<<>>, contributions, 1))

----------------------------------------------------------------------------
(* src/src/neoprene.rs: the evaluator *)

\* the term with the signs exchanged: Pos for the even n
pi_term_even_pos(n) ==
    Rat(IF n % 2 = 0 THEN "Pos" ELSE "Neg", 4, (2 * n) * (2 * n + 1) * (2 * n + 2))

\* the term the Gregory-Leibniz loop adds for n
pi_term(n) ==
    Rat(IF n % 2 = 1 THEN "Pos" ELSE "Neg", 4, (2 * n) * (2 * n + 1) * (2 * n + 2))

RECURSIVE pi_loop(_, _, _)
pi_loop(acc, n, k) ==
    IF n > k THEN acc
    ELSE Let(Rational_add_assign(acc, pi_term(n)), LAMBDA next :
             pi_loop(next, n + 1, k))

\* TransitiveConsts::Pi: the sums after k and after k + 1 terms
neoprene_pi(k) ==
    Let(pi_loop(Rational_from(3), 1, k), LAMBDA sum_k :
    Let(Rational_add_assign(sum_k,
            Rat(IF k % 2 = 0 THEN "Pos" ELSE "Neg", 4,
                (2 * k + 2) * (2 * k + 3) * (2 * k + 4))), LAMBDA sum_k1 :
        IF k % 2 = 1 THEN Range(sum_k1, sum_k) ELSE Range(sum_k, sum_k1)))

\* the loop `for i in 2..x`, which leaves the factor x out
RECURSIVE factorial_biguint_short(_)
factorial_biguint_short(x) ==
    IF x < 3 THEN 1 ELSE (x - 1) * factorial_biguint_short(x - 1)

RECURSIVE factorial_biguint(_)
factorial_biguint(x) == IF x < 2 THEN 1 ELSE x * factorial_biguint(x - 1)

factorial(x) == Rat("Pos", factorial_biguint(x), 1)

RECURSIVE euler_loop(_, _, _)
euler_loop(acc, n, last) ==
    IF n > last THEN acc
    ELSE Let(Rational_add_assign(acc, invert(factorial(n))), LAMBDA next :
             euler_loop(next, n + 1, last))

\* TransitiveConsts::Euler: min is the sum up to 1/(k+2)!, max is min plus
\* min with its denominator multiplied by (k+3)!
neoprene_euler(k) ==
    Let(euler_loop(Rational_from(2), 2, k + 2), LAMBDA min :
    Let(simplify(Rat(min.sign, min.numer, min.denom * factorial_biguint(k + 3))),
        LAMBDA error :
        Range(min, Rational_add_assign(min, error))))

neoprene_transitive(transitive_const, newton_iterations) ==
    IF transitive_const = "Pi"
    THEN neoprene_pi(biguint_to_u32(newton_iterations))
    ELSE neoprene_euler(biguint_to_u32(newton_iterations))

----------------------------------------------------------------------------
(* src/src/neoprene_taylor.rs: compute_pi and compute_euler, which hold the
   same loops as neoprene_transitive and then build the range with
   RationalRange::from and coarsen it *)

\* compute_pi up to RationalRange::from((min, max))
compute_pi_range(newton_iterations) ==
    Let(biguint_to_u32(newton_iterations) * 8, LAMBDA k :
    Let(pi_loop(Rational_from(3), 1, k), LAMBDA b0 :
    Let(Rational_add_assign(b0,
            Rat(IF k % 2 = 0 THEN "Pos" ELSE "Neg", 4,
                (2 * k + 2) * (2 * k + 3) * (2 * k + 4))), LAMBDA a0 :
        IF k % 2 = 1 THEN RationalRange_from(a0, b0)
        ELSE RationalRange_from(b0, a0))))

compute_pi(newton_iterations, limit_denom) ==
    Let(compute_pi_range(newton_iterations), LAMBDA range :
        IF IsPanic(range) THEN Panic
        ELSE RationalRange_to_with_denominator(range, limit_denom))

\* compute_euler up to RationalRange::from((min, max))
compute_euler_range(newton_iterations) ==
    Let(biguint_to_u32(newton_iterations), LAMBDA k :
    Let(euler_loop(Rational_from(2), 2, k + 2), LAMBDA min :
    Let(simplify(Rat(min.sign, min.numer, min.denom * factorial_biguint(k + 3))),
        LAMBDA error :
        RationalRange_from(min, Rational_add_assign(min, error)))))

compute_euler(newton_iterations, limit_denom) ==
    Let(compute_euler_range(newton_iterations), LAMBDA range :
        IF IsPanic(range) THEN Panic
        ELSE RationalRange_to_with_denominator(range, limit_denom))

\* the same test in neoprene_rational_pow_raw
rational_pow_raw_rejects(rational, exp) ==
    is_negative(rational) /\ is_denom_odd(exp)

neoprene_rational_pow_raw(rational, exp) ==
    IF ~is_simplified(exp) THEN Panic
    ELSE IF is_zero(exp) THEN Panic
    ELSE IF is_one(exp) THEN Panic
    ELSE IF Rational_gt(exp, Rational_from(8)) THEN Panic
    ELSE IF rational_pow_raw_rejects(rational, exp) THEN Panic
    ELSE IF is_int(exp) THEN
        Let(powi(rational, exp.numer), LAMBDA p :
            IF IsPanic(p) THEN Panic
            ELSE IF is_negative(exp) THEN invert(p) ELSE p)
    ELSE Panic  \* todo!()

neoprene_range_pow_raw(range, exp) ==
    Let(descriptor(range), LAMBDA d :
    Let(neoprene_rational_pow_raw(range.min, exp), LAMBDA lo :
    Let(neoprene_rational_pow_raw(range.max, exp), LAMBDA hi :
        IF d = "panic" \/ IsPanic(lo) \/ IsPanic(hi) THEN Panic
        ELSE IF d = "BothPos" THEN Range(lo, hi)
        ELSE
    Let(IF Rational_gt(lo, hi) THEN Range(hi, lo) ELSE Range(lo, hi), LAMBDA r :
        IF d = "OverlapZero" /\ ~is_negative(r.min) /\ ~is_negative(r.max)
        THEN Range(Rational_zero, r.max)
        ELSE r))))

\* i_range.min *= &i.0; i_range.max *= &i.0
scale_range(i_range0, coefficient) ==
    Let(i_range0, LAMBDA i_range :
        Range(Rational_mul_assign(i_range.min, coefficient),
              Rational_mul_assign(i_range.max, coefficient)))

RECURSIVE neoprene_byznode(_, _)
RECURSIVE neoprene_add_loop(_, _, _, _)
RECURSIVE neoprene_mul_loop(_, _, _, _)

\* the loop of neoprene_add over vec, from entry i on
neoprene_add_loop(range, vec, i, newton_iterations) ==
    IF i > Len(vec) THEN range
    ELSE Let(neoprene_byznode(vec[i][2], newton_iterations), LAMBDA i_range :
             IF IsPanic(i_range) THEN Panic
             ELSE Let(RationalRange_add_assign(range, scale_range(i_range, vec[i][1])),
                      LAMBDA next :
                      neoprene_add_loop(next, vec, i + 1, newton_iterations)))

neoprene_add(addends, newton_iterations) ==
    neoprene_add_loop(Range(addends.rational_part, addends.rational_part),
                      addends.vec, 1, newton_iterations)

\* the loop of neoprene_mul over vec, from entry i on
neoprene_mul_loop(range, vec, i, newton_iterations) ==
    IF i > Len(vec) THEN range
    ELSE Let(neoprene_byznode(vec[i][2], newton_iterations), LAMBDA i_range :
             IF IsPanic(i_range) THEN Panic
             ELSE
         Let(neoprene_range_pow_raw(i_range, vec[i][1]), LAMBDA powered :
             IF IsPanic(powered) THEN Panic
             ELSE
         Let(RationalRange_mul_assign(range, powered), LAMBDA next :
             IF IsPanic(next) THEN Panic
             ELSE neoprene_mul_loop(next, vec, i + 1, newton_iterations))))

neoprene_mul(products, newton_iterations) ==
    neoprene_mul_loop(Range(products.rational_part, products.rational_part),
                      products.vec, 1, newton_iterations)

neoprene_pow(byznode, exp, newton_iterations) ==
    Let(neoprene_byznode(byznode, newton_iterations), LAMBDA range :
        IF IsPanic(range) THEN Panic ELSE neoprene_range_pow_raw(range, exp))

neoprene_byznode(byznode, newton_iterations) ==
    IF byznode.type = "TransitiveConst"
        THEN neoprene_transitive(byznode.transitive_const, newton_iterations)
    ELSE IF byznode.type = "Add" THEN neoprene_add(byznode, newton_iterations)
    ELSE IF byznode.type = "Mul" THEN neoprene_mul(byznode, newton_iterations)
    ELSE neoprene_pow(byznode.base, byznode.exp, newton_iterations)

----------------------------------------------------------------------------
(* src/src/neoprene_comp.rs: the comparison driver *)

\* the tests of one round with the budget test made first
comp_decide_budget_first(ra, rb, iterations, max_iter) ==
    IF iterations > max_iter THEN "FailedToConverge"
    ELSE IF Rational_gt(ra.min, rb.max) THEN "Greater"
    ELSE IF Rational_lt(ra.max, rb.min) THEN "Less"
    ELSE "continue"

\* the tests of one round with >= in the budget test
comp_decide_budget_ge(ra, rb, iterations, max_iter) ==
    IF Rational_gt(ra.min, rb.max) THEN "Greater"
    ELSE IF Rational_lt(ra.max, rb.min) THEN "Less"
    ELSE IF iterations >= max_iter THEN "FailedToConverge"
    ELSE "continue"

\* the three tests of one round, in the order of the loop body; "continue"
\* when none returns
comp_decide(ra, rb, iterations, max_iter) ==
    IF Rational_gt(ra.min, rb.max) THEN "Greater"
    ELSE IF Rational_lt(ra.max, rb.min) THEN "Less"
    ELSE IF iterations > max_iter THEN "FailedToConverge"
    ELSE "continue"

\* neoprene_comp as a function of its arguments: the rounds from
\* current_iterations on, `round` counting them; the result and the number
\* of rounds made
RECURSIVE neoprene_comp_loop(_, _, _, _, _)
neoprene_comp_loop(a0, b0, max_iter, iterations, round) ==
    Let(neoprene_byznode(a0, iterations), LAMBDA ra :
    Let(neoprene_byznode(b0, iterations), LAMBDA rb :
        IF IsPanic(ra) \/ IsPanic(rb)
        THEN [result |-> "panic", rounds |-> round]
        ELSE
    Let(comp_decide(ra, rb, iterations, max_iter), LAMBDA d :
        IF d = "continue"
        THEN neoprene_comp_loop(a0, b0, max_iter, iterations + 1, round + 1)
        ELSE [result |-> d, rounds |-> round])))

neoprene_comp(a0, b0, max_iter) == neoprene_comp_loop(a0, b0, max_iter, 3, 1)

\* current_limit_denom += 3, in the place of the multiplication
limit_denom_step_add(limit_denom) == limit_denom + 3

\* current_limit_denom *= 3 as u8
limit_denom_step(limit_denom) == limit_denom * 3

\* the expression trees compared: the two constants, rationals (a Sum with
\* no term), Sums of one term with a positive or a negative coefficient,
\* a Prod and Pows of rationals
Pi == TransitiveConst("Pi")

Euler == TransitiveConst("Euler")

RatNode(n, d) == AddNode(Rational_from_pair(n, d), <<>>)

Trees ==
    { Pi, Euler,
      RatNode(1, 2), RatNode(1, 3), RatNode(22, 7), RatNode(3, 1),
      AddNode(Rational_from(0), << <<Rational_from(1), Pi>> >>),
      AddNode(Rational_from(0), << <<Rational_from(-1), Pi>> >>),
      AddNode(Rational_from(1), << <<Rational_from(2), Euler>> >>),
      AddNode(Rational_from(6), << <<Rational_from(-1), Euler>> >>),
      MulNode(Rational_from(3), << <<Rational_from(2), RatNode(1, 2)>> >>),
      MulNode(Rational_from(3), << <<Rational_from(1), Pi>> >>),
      PowNode(RatNode(3, 2), Rational_from(2)),
      PowNode(RatNode(-2, 1), Rational_from(3)) }

CallIdle ==
    /\ self = "none" /\ rhs = "none" /\ param = 0
    /\ fn = "idle" /\ ret = "none"

\* neoprene_comp(a, b, max_iterations) is entered
InitComp ==
    /\ CallIdle
    /\ a \in Trees
    /\ b \in Trees
    /\ max_iterations \in 0..MaxIterations
    /\ current_iterations = 3
    /\ current_limit_denom = 6091
    /\ a_range = NoRange
    /\ b_range = NoRange
    /\ pc = "evaluate"
    /\ result = "none"
    /\ rounds = 0

\* the two calls of neoprene_byznode of one round; a panic of either ends
\* neoprene_comp. The calls pass current_limit_denom as well; neoprene_byznode
\* of neoprene.rs has no such parameter and no evaluation reads it
CompEvaluate ==
    /\ pc = "evaluate"
    /\ a_range' = neoprene_byznode(a, current_iterations)
    /\ b_range' = neoprene_byznode(b, current_iterations)
    /\ rounds' = rounds + 1
    /\ IF IsPanic(a_range') \/ IsPanic(b_range')
       THEN pc' = "done" /\ result' = "panic"
       ELSE pc' = "decide" /\ result' = result
    /\ UNCHANGED <<a, b, max_iterations, current_iterations, current_limit_denom>>
    /\ UNCHANGED callVars

\* the tests of the round: a return, or the next round
CompDecide ==
    /\ pc = "decide"
    /\ LET d == comp_decide(a_range, b_range, current_iterations, max_iterations)
       IN  IF d = "continue"
           THEN /\ current_iterations' = current_iterations + 1
                /\ current_limit_denom' = limit_denom_step(current_limit_denom)
                /\ pc' = "evaluate"
                /\ result' = result
           ELSE /\ pc' = "done"
                /\ result' = d
                /\ UNCHANGED <<current_iterations, current_limit_denom>>
    /\ UNCHANGED <<a, b, max_iterations, a_range, b_range, rounds>>
    /\ UNCHANGED callVars

NextComp == CompEvaluate \/ CompDecide

SpecComp == InitComp /\ [][NextComp]_vars

\* the loop runs on until it returns
SpecCompFair == SpecComp /\ WF_vars(NextComp)

----------------------------------------------------------------------------
(* Calls of the Rational operations on drawn operands *)

Signs == {"Pos", "Neg"}

\* every Rational with a non-zero denominator, simplified or not, zero
\* under either sign (the fields are public and the program writes them)
RationalInputs ==
    {Rat(s, n, d) : s \in Signs, n \in 0..MaxNumer, d \in 1..MaxDenom}

CompIdle ==
    /\ a = "none" /\ b = "none" /\ max_iterations = 0
    /\ current_iterations = 0 /\ current_limit_denom = 0
    /\ a_range = NoRange /\ b_range = NoRange
    /\ pc = "idle" /\ result = "none" /\ rounds = 0

InitRat ==
    /\ CompIdle
    /\ self \in RationalInputs
    /\ rhs \in RationalInputs
    /\ param = 0
    /\ fn = "none"
    /\ ret = "none"

AddAssign ==
    /\ fn = "none"
    /\ fn' = "add_assign"
    /\ ret' = Rational_add_assign(self, rhs)
    /\ UNCHANGED <<self, rhs, param>>
    /\ UNCHANGED compVars

SubAssign ==
    /\ fn = "none"
    /\ fn' = "sub_assign"
    /\ ret' = Rational_sub_assign(self, rhs)
    /\ UNCHANGED <<self, rhs, param>>
    /\ UNCHANGED compVars

Eq ==
    /\ fn = "none"
    /\ fn' = "eq"
    /\ ret' = [eq |-> Rational_eq(self, rhs)]
    /\ UNCHANGED <<self, rhs, param>>
    /\ UNCHANGED compVars

Cmp ==
    /\ fn = "none"
    /\ fn' = "cmp"
    /\ ret' = Rational_cmp(self, rhs)
    /\ UNCHANGED <<self, rhs, param>>
    /\ UNCHANGED compVars

NextRat == AddAssign \/ SubAssign \/ Eq \/ Cmp

SpecRat == InitRat /\ [][NextRat]_vars

----------------------------------------------------------------------------
(* Calls of the RationalRange operations on drawn operands *)

RangeEndpoints ==
    {Rat(s, n, d) : s \in Signs, n \in 0..MaxRangeNumer, d \in 1..MaxRangeDenom}

\* the intervals RationalRange::from accepts
RangeInputs ==
    {r \in {Range(lo, hi) : lo \in RangeEndpoints, hi \in RangeEndpoints} :
        ~Rational_gt(r.min, r.max)}

InitRange ==
    /\ CompIdle
    /\ self \in RangeInputs
    /\ rhs \in RangeInputs
    /\ param \in 1..MaxNewDenom
    /\ fn = "none"
    /\ ret = "none"

RangeMulAssign ==
    /\ fn = "none"
    /\ fn' = "range_mul_assign"
    /\ ret' = RationalRange_mul_assign(self, rhs)
    /\ UNCHANGED <<self, rhs, param>>
    /\ UNCHANGED compVars

RangeToWithDenominator ==
    /\ fn = "none"
    /\ fn' = "range_to_with_denominator"
    /\ ret' = RationalRange_to_with_denominator(self, param)
    /\ UNCHANGED <<self, rhs, param>>
    /\ UNCHANGED compVars

RangeAddAssign ==
    /\ fn = "none"
    /\ fn' = "range_add_assign"
    /\ ret' = RationalRange_add_assign(self, rhs)
    /\ UNCHANGED <<self, rhs, param>>
    /\ UNCHANGED compVars

RangeReciprocate ==
    /\ fn = "none"
    /\ fn' = "range_reciprocate"
    /\ ret' = reciprocate(self)
    /\ UNCHANGED <<self, rhs, param>>
    /\ UNCHANGED compVars

NextRange ==
    \/ RangeMulAssign
    \/ RangeToWithDenominator
    \/ RangeAddAssign
    \/ RangeReciprocate

SpecRange == InitRange /\ [][NextRange]_vars

----------------------------------------------------------------------------
(* Calls of RationalRange::descriptor on every pair of endpoints *)

\* min and max are public fields: any two Rationals can be stored in them
RangePairs ==
    {Range(lo, hi) : lo \in RangeEndpoints, hi \in RangeEndpoints}

InitDescriptor ==
    /\ CompIdle
    /\ self \in RangePairs
    /\ rhs = "none"
    /\ param = 0
    /\ fn = "none"
    /\ ret = "none"

Descriptor ==
    /\ fn = "none"
    /\ fn' = "descriptor"
    /\ ret' = descriptor(self)
    /\ UNCHANGED <<self, rhs, param>>
    /\ UNCHANGED compVars

NextDescriptor == Descriptor

SpecDescriptor == InitDescriptor /\ [][NextDescriptor]_vars

----------------------------------------------------------------------------
(* Calls of initial_root_bounds on drawn bases and roots *)

\* the positive bases, simplified or not
RootBases ==
    {Rat("Pos", n, d) : n \in 1..MaxBaseNumer, d \in 1..MaxBaseDenom}

InitRootBounds ==
    /\ CompIdle
    /\ self \in RootBases
    /\ rhs = "none"
    /\ param \in 1..MaxRoot
    /\ fn = "none"
    /\ ret = NoRange

InitialRootBounds ==
    /\ fn = "none"
    /\ fn' = "initial_root_bounds"
    /\ ret' = initial_root_bounds(self, param)
    /\ UNCHANGED <<self, rhs, param>>
    /\ UNCHANGED compVars

NextRootBounds == InitialRootBounds

SpecRootBounds == InitRootBounds /\ [][NextRootBounds]_vars

----------------------------------------------------------------------------
(* Calls of the series of pi and e: neoprene_transitive of neoprene.rs and
   compute_pi, compute_euler of neoprene_taylor.rs *)

SeriesParams ==
    [newton_iterations : 1..MaxPiTerms, limit_denom : 1..MaxSeriesDenom]

InitSeries ==
    /\ CompIdle
    /\ self = "none"
    /\ rhs = "none"
    /\ param \in SeriesParams
    /\ fn = "none"
    /\ ret = NoRange

\* neoprene_transitive(TransitiveConsts::Pi, ..): k = newton_iterations
TransitivePi ==
    /\ fn = "none"
    /\ fn' = "neoprene_transitive_pi"
    /\ ret' = [k |-> param.newton_iterations,
               range |-> neoprene_transitive("Pi", param.newton_iterations)]
    /\ UNCHANGED <<self, rhs, param>>
    /\ UNCHANGED compVars

\* compute_pi: k = 8 * newton_iterations
ComputePi ==
    /\ fn = "none"
    /\ param.newton_iterations * 8 <= MaxPiTerms
    /\ fn' = "compute_pi"
    /\ ret' = [k |-> param.newton_iterations * 8,
               range |-> compute_pi_range(param.newton_iterations),
               coarse |-> compute_pi(param.newton_iterations, param.limit_denom)]
    /\ UNCHANGED <<self, rhs, param>>
    /\ UNCHANGED compVars

TransitiveEuler ==
    /\ fn = "none"
    /\ param.newton_iterations <= MaxEulerIter
    /\ fn' = "neoprene_transitive_euler"
    /\ ret' = [k |-> param.newton_iterations,
               range |-> neoprene_transitive("Euler", param.newton_iterations)]
    /\ UNCHANGED <<self, rhs, param>>
    /\ UNCHANGED compVars

ComputeEuler ==
    /\ fn = "none"
    /\ param.newton_iterations <= MaxEulerIter
    /\ fn' = "compute_euler"
    /\ ret' = [k |-> param.newton_iterations,
               range |-> compute_euler_range(param.newton_iterations),
               coarse |-> compute_euler(param.newton_iterations, param.limit_denom)]
    /\ UNCHANGED <<self, rhs, param>>
    /\ UNCHANGED compVars

NextSeries == TransitivePi \/ ComputePi \/ TransitiveEuler \/ ComputeEuler

SpecSeries == InitSeries /\ [][NextSeries]_vars

----------------------------------------------------------------------------
(* Calls of rational_range_pow on drawn operands *)

\* the exponents: the small ones of both signs, and 9, above the limit 8
PowExps ==
    {Rat(s, n, d) : s \in Signs, n \in 0..MaxExpNumer, d \in 1..MaxRoot}
    \cup {Rat("Pos", 9, 1)}

PowParams ==
    [newton_iterations : 1..MaxNewton, limit_denom : 1..MaxLimitDenom]

InitPow ==
    /\ CompIdle
    /\ self \in RangeInputs
    /\ rhs \in PowExps
    /\ param \in PowParams
    /\ fn = "none"
    /\ ret = "none"

RationalRangePow ==
    /\ fn = "none"
    /\ fn' = "rational_range_pow"
    /\ ret' = rational_range_pow(self, rhs, param.newton_iterations, param.limit_denom)
    /\ UNCHANGED <<self, rhs, param>>
    /\ UNCHANGED compVars

NthRootRange ==
    /\ fn = "none"
    /\ rhs.denom >= 1 /\ ~is_negative(self.min)
    /\ fn' = "nth_root_range"
    /\ ret' = nth_root_range(self, rhs.denom, param.newton_iterations, param.limit_denom)
    /\ UNCHANGED <<self, rhs, param>>
    /\ UNCHANGED compVars

\* neoprene_rational_pow_raw on the lower endpoint
RationalPowRaw ==
    /\ fn = "none"
    /\ fn' = "neoprene_rational_pow_raw"
    /\ ret' = neoprene_rational_pow_raw(self.min, rhs)
    /\ UNCHANGED <<self, rhs, param>>
    /\ UNCHANGED compVars

NextPow == RationalRangePow \/ NthRootRange \/ RationalPowRaw

SpecPow == InitPow /\ [][NextPow]_vars

----------------------------------------------------------------------------
(* Calls of the core operations of Rational on canonical operands *)

\* the canonical form: lowest terms, a positive denominator, zero positive
is_canonical(r) ==
    /\ r.denom > 0
    /\ gcd(r.numer, r.denom) = 1
    /\ (r.numer = 0 => r.sign = "Pos")

CanonicalInputs == {r \in RationalInputs : is_canonical(r)}

InitCanon ==
    /\ CompIdle
    /\ self \in CanonicalInputs
    /\ rhs \in CanonicalInputs
    /\ param \in 0..MaxCanonParam
    /\ fn = "none"
    /\ ret = "none"

CoreNew ==
    /\ fn = "none"
    /\ fn' = "new"
    /\ \E s \in Signs, n \in 0..MaxNumer, d \in 1..MaxDenom :
           ret' = Rational_new(s, n, d)
    /\ UNCHANGED <<self, rhs, param>>
    /\ UNCHANGED compVars

CoreZero ==
    /\ fn = "none"
    /\ fn' = "zero"
    /\ ret' = Rational_zero
    /\ UNCHANGED <<self, rhs, param>>
    /\ UNCHANGED compVars

CoreOne ==
    /\ fn = "none"
    /\ fn' = "one"
    /\ ret' = Rational_one
    /\ UNCHANGED <<self, rhs, param>>
    /\ UNCHANGED compVars

CoreFrom ==
    /\ fn = "none"
    /\ fn' = "from"
    /\ \E i \in (-MaxNumer)..MaxNumer : ret' = Rational_from(i)
    /\ UNCHANGED <<self, rhs, param>>
    /\ UNCHANGED compVars

CoreFromPair ==
    /\ fn = "none"
    /\ fn' = "from_pair"
    /\ \E n \in (-MaxNumer)..MaxNumer, d \in ((-MaxDenom)..MaxDenom) \ {0} :
           ret' = Rational_from_pair(n, d)
    /\ UNCHANGED <<self, rhs, param>>
    /\ UNCHANGED compVars

CoreAddAssign ==
    /\ fn = "none"
    /\ fn' = "add_assign"
    /\ ret' = Rational_add_assign(self, rhs)
    /\ UNCHANGED <<self, rhs, param>>
    /\ UNCHANGED compVars

CoreSubAssign ==
    /\ fn = "none"
    /\ fn' = "sub_assign"
    /\ ret' = Rational_sub_assign(self, rhs)
    /\ UNCHANGED <<self, rhs, param>>
    /\ UNCHANGED compVars

CoreMulAssign ==
    /\ fn = "none"
    /\ fn' = "mul_assign"
    /\ ret' = Rational_mul_assign(self, rhs)
    /\ UNCHANGED <<self, rhs, param>>
    /\ UNCHANGED compVars

CoreDivAssign ==
    /\ fn = "none"
    /\ fn' = "div_assign"
    /\ ret' = Rational_div_assign(self, rhs)
    /\ UNCHANGED <<self, rhs, param>>
    /\ UNCHANGED compVars

CoreNegate ==
    /\ fn = "none"
    /\ fn' = "negate"
    /\ ret' = negate(self)
    /\ UNCHANGED <<self, rhs, param>>
    /\ UNCHANGED compVars

CoreInvert ==
    /\ fn = "none"
    /\ fn' = "invert"
    /\ ret' = invert(self)
    /\ UNCHANGED <<self, rhs, param>>
    /\ UNCHANGED compVars

CorePowi ==
    /\ fn = "none"
    /\ fn' = "powi"
    /\ ret' = powi(self, param)
    /\ UNCHANGED <<self, rhs, param>>
    /\ UNCHANGED compVars

CoreToWithDenominator ==
    /\ fn = "none"
    /\ param >= 1
    /\ fn' = "to_with_denominator"
    /\ \E round_up \in BOOLEAN :
           ret' = Rational_to_with_denominator(self, param, round_up)
    /\ UNCHANGED <<self, rhs, param>>
    /\ UNCHANGED compVars

NextCanon ==
    \/ CoreNew \/ CoreZero \/ CoreOne \/ CoreFrom \/ CoreFromPair
    \/ CoreAddAssign \/ CoreSubAssign \/ CoreMulAssign \/ CoreDivAssign
    \/ CoreNegate \/ CoreInvert \/ CorePowi \/ CoreToWithDenominator

SpecCanon == InitCanon /\ [][NextCanon]_vars

----------------------------------------------------------------------------
(* Sequences of ByzNodeVec::insert on a new ByzNodeCoefficientAddVec or
   ByzNodePowerMulVec *)

\* the nodes inserted as terms: a constant, a Pow, a Prod, Sums without and
\* with a term (two of them equal under cmp and different as records)
InsertTerms ==
    { Pi,
      PowNode(Pi, Rational_from(2)),
      MulNode(Rational_from(2), << <<Rational_from(2), Euler>> >>),
      RatNode(1, 2), RatNode(2, 4),
      AddNode(Rational_from(1), << <<Rational_from(1), Pi>> >>) }

\* the coefficients or exponents inserted: both zeros among them
InsertWeights ==
    { Rational_from(1), Rational_from(-1), Rational_from(-2),
      Rational_from(0), Rat("Pos", 0, 1) }

\* ByzNodeCoefficientAddVec::new, ByzNodePowerMulVec::new
ByzNodeVec_new(kind) ==
    [type |-> kind,
     rational_part |-> IF kind = "Add" THEN Rational_from(0) ELSE Rational_from(1),
     vec |-> <<>>]

InitInsert ==
    /\ CompIdle
    /\ self \in {ByzNodeVec_new("Add"), ByzNodeVec_new("Mul")}
    /\ rhs = "none"
    /\ param = 0
    /\ fn = "new"
    /\ ret = "none"

\* insert_rational: += on the rational_part of a Sum, *= on that of a Prod
InsertRational ==
    /\ fn = "new"
    /\ \E rational \in {Rational_from(2), Rat("Neg", 1, 2)} :
           self' = [self EXCEPT !.rational_part =
                        IF self.type = "Add"
                        THEN Rational_add_assign(self.rational_part, rational)
                        ELSE Rational_mul_assign(self.rational_part, rational)]
    /\ fn' = "insert_rational"
    /\ UNCHANGED <<rhs, param, ret>>
    /\ UNCHANGED compVars

Insert ==
    /\ param < MaxInserts
    /\ \E w \in InsertWeights, t \in InsertTerms :
           self' = [self EXCEPT !.vec = insert(self.vec, <<w, t>>)]
    /\ fn' = "insert"
    /\ param' = param + 1
    /\ UNCHANGED <<rhs, ret>>
    /\ UNCHANGED compVars

InsertSingle ==
    /\ param < MaxInserts
    /\ \E t \in InsertTerms :
           self' = [self EXCEPT !.vec = insert_single(self.vec, t)]
    /\ fn' = "insert_single"
    /\ param' = param + 1
    /\ UNCHANGED <<rhs, ret>>
    /\ UNCHANGED compVars

NextInsert == InsertRational \/ Insert \/ InsertSingle

SpecInsert == InitInsert /\ [][NextInsert]_vars

----------------------------------------------------------------------------
(* Calls of generate_byznode_utils::add, mul and pow on drawn arguments *)

\* the terms of the contributions: a constant, a Prod, Sums without and
\* with a term
GBUTerms ==
    { Pi,
      MulNode(Rational_from(2), << <<Rational_from(2), Euler>> >>),
      RatNode(1, 2),
      AddNode(Rational_from(1), << <<Rational_from(1), Pi>> >>) }

\* the Option<Rational> weights of the contributions
GBUWeights == { None, Rational_from(-1), Rational_from(-2) }

\* the rational tails
GBURats == { Rational_from(0), Rat("Pos", 0, 1), Rat("Pos", 1, 2) }

\* the exponents given to pow
GBUExps == { Rational_from(0), Rational_from(1), Rational_from(2), Rat("Pos", 1, 2) }

\* the vec arguments: every list of up to MaxContribs contributions
GBUContributions ==
    UNION { [1..n -> GBUWeights \X GBUTerms] : n \in 0..MaxContribs }

InitGBU ==
    /\ CompIdle
    /\ self = None
    /\ rhs \in GBUContributions
    /\ param \in GBURats \cup {None}
    /\ fn = "none"
    /\ ret = None

Add ==
    /\ fn = "none"
    /\ ~IsNone(param)
    /\ fn' = "add"
    /\ ret' = GBU_add(param, rhs)
    /\ UNCHANGED <<self, rhs, param>>
    /\ UNCHANGED compVars

Mul ==
    /\ fn = "none"
    /\ fn' = "mul"
    /\ ret' = GBU_mul(param, rhs)
    /\ UNCHANGED <<self, rhs, param>>
    /\ UNCHANGED compVars

\* pow(a, b); self keeps the arguments
Pow ==
    /\ fn = "none"
    /\ fn' = "pow"
    /\ \E base \in GBUTerms, exp \in GBUExps :
           /\ self' = [base |-> base, exp |-> exp]
           /\ ret' = PowNode(base, exp)
    /\ UNCHANGED <<rhs, param>>
    /\ UNCHANGED compVars

NextGBU == Add \/ Mul \/ Pow

SpecGBU == InitGBU /\ [][NextGBU]_vars

----------------------------------------------------------------------------
(* == and cmp on pairs of nodes built through the builders *)

\* the lists of up to MaxOrdContribs contributions over a constant and a
\* Sum without a term
OrdContributions ==
    UNION { [1..n -> GBUWeights \X {Pi, RatNode(1, 2)}] : n \in 0..MaxOrdContribs }

\* the nodes transitive, add, mul and pow return
BuiltNodes ==
    {Pi, Euler}
    \cup {GBU_add(rat, c) : rat \in GBURats, c \in OrdContributions}
    \cup {GBU_mul(rat, c) : rat \in GBURats \cup {None}, c \in OrdContributions}
    \cup {PowNode(base, exp) : base \in {Pi, RatNode(1, 2)}, exp \in GBUExps \cup {Rat("Pos", 0, 1)}}

InitOrd ==
    /\ CallIdle
    /\ a \in BuiltNodes
    /\ b \in BuiltNodes
    /\ max_iterations = 0
    /\ current_iterations = 0
    /\ current_limit_denom = 0
    /\ a_range = NoRange
    /\ b_range = NoRange
    /\ pc = "idle"
    /\ result = "none"
    /\ rounds = 0

\* a == b
NodeEq ==
    /\ pc = "idle"
    /\ pc' = "eq"
    /\ result' = IF ByzNode_eq(a, b) THEN "true" ELSE "false"
    /\ UNCHANGED <<a, b, max_iterations, current_iterations, current_limit_denom,
                   a_range, b_range, rounds>>
    /\ UNCHANGED callVars

\* a.cmp(b)
NodeCmp ==
    /\ pc = "idle"
    /\ pc' = "cmp"
    /\ result' = ByzNode_cmp(a, b)
    /\ UNCHANGED <<a, b, max_iterations, current_iterations, current_limit_denom,
                   a_range, b_range, rounds>>
    /\ UNCHANGED callVars

NextOrd == NodeEq \/ NodeCmp

SpecOrd == InitOrd /\ [][NextOrd]_vars

----------------------------------------------------------------------------
(* The value of a Rational as a fraction of integers *)

SignedNumer(r) == IF r.sign = "Neg" THEN -r.numer ELSE r.numer

\* x = y, x < y as fractions of integers with positive denominators
SameValue(xn, xd, yn, yd) == xn * yd = yn * xd

NumericalOrder(x, y) ==
    LET l == SignedNumer(x) * y.denom
        r == SignedNumer(y) * x.denom
    IN  IF l < r THEN "Less" ELSE IF l = r THEN "Equal" ELSE "Greater"

----------------------------------------------------------------------------
(* Claims on the Rational operations, under SpecRat *)

\* C7: after a += b the value of a is the exact sum a + b, and after
\* a -= b it is the exact difference a - b, for all signs and magnitudes.
C7_ExactSumAndDifference ==
    /\ fn = "add_assign" =>
          /\ ~IsPanic(ret)
          /\ SameValue(SignedNumer(ret), ret.denom,
                       SignedNumer(self) * rhs.denom + SignedNumer(rhs) * self.denom,
                       self.denom * rhs.denom)
    /\ fn = "sub_assign" =>
          /\ ~IsPanic(ret)
          /\ SameValue(SignedNumer(ret), ret.denom,
                       SignedNumer(self) * rhs.denom - SignedNumer(rhs) * self.denom,
                       self.denom * rhs.denom)

\* C8: addition is commutative: the result of a += b compares Equal to
\* the result of b += a.
C8_AddCommutes ==
    fn = "add_assign" =>
        Rational_cmp(ret, Rational_add_assign(rhs, self)) = "Equal"

\* C9: a == b is true exactly when a.cmp(b) is Equal; two zeros are equal
\* under both whatever their stored signs.
C9_EqAgreesWithCmp ==
    fn = "eq" => (ret.eq <=> (Rational_cmp(self, rhs) = "Equal"))

\* C10: a.cmp(b) is Less, Equal or Greater exactly as sa*na*db is less
\* than, equal to or greater than sb*nb*da; a positive value is Greater
\* than every negative value.
C10_CmpIsNumericalOrder ==
    fn = "cmp" =>
        /\ ret = NumericalOrder(self, rhs)
        /\ (SignedNumer(self) > 0 /\ SignedNumer(rhs) < 0) => ret = "Greater"

\* C10's case: an unsimplified negative value against a zero stored with
\* sign Neg
C10_Witness ==
    /\ fn = "cmp"
    /\ self.sign = "Neg" /\ self.numer = 2 /\ self.denom = 4
    /\ rhs.sign = "Neg" /\ rhs.numer = 0 /\ rhs.denom = 3
    /\ ret = "Less"

----------------------------------------------------------------------------
(* Claims on the RationalRange operations, under SpecRange *)

\* the value of x is at most the value of y
ValueLe(x, y) == SignedNumer(x) * y.denom <= SignedNumer(y) * x.denom

ValueEq(x, y) == SignedNumer(x) * y.denom = SignedNumer(y) * x.denom

\* the four products of the endpoints of I and J, as exact fractions
EndpointProducts(I, J) ==
    {Rat(Sign_bitxor(p.sign, q.sign), p.numer * q.numer, p.denom * q.denom) :
        p \in {I.min, I.max}, q \in {J.min, J.max}}

\* C4: coarsening [lo, hi] to a denominator D >= 1 gives [lo', hi'] with
\* lo' <= lo and hi <= hi'.
C4_CoarseningEncloses ==
    fn = "range_to_with_denominator" =>
        /\ ~IsPanic(ret)
        /\ ValueLe(ret.min, self.min)
        /\ ValueLe(self.max, ret.max)

\* C6: after I *= J, min is the least and max the greatest of the four
\* products of endpoints, in each of the nine sign-class combinations.
C6_MulIsHullOfProducts ==
    fn = "range_mul_assign" =>
        /\ ~IsPanic(ret)
        /\ \E p \in EndpointProducts(self, rhs) : ValueEq(ret.min, p)
        /\ \A p \in EndpointProducts(self, rhs) : ValueLe(ret.min, p)
        /\ \E p \in EndpointProducts(self, rhs) : ValueEq(ret.max, p)
        /\ \A p \in EndpointProducts(self, rhs) : ValueLe(p, ret.max)

----------------------------------------------------------------------------
(* Claims on rational_range_pow, under SpecPow *)

\* x^q <= y as values, for x, y of any sign
PowValueLe(x, q, y) ==
    IntPow(SignedNumer(x), q) * y.denom <= SignedNumer(y) * IntPow(x.denom, q)

\* y <= x^q as values
ValueLePow(y, x, q) ==
    SignedNumer(y) * IntPow(x.denom, q) <= IntPow(SignedNumer(x), q) * y.denom

\* C5: for 0 < lo <= hi and e = 1/q, q >= 2, rational_range_pow returns
\* [lo', hi'] with lo'^q <= lo and hi <= hi'^q (x^e lies in the result for
\* every x of [lo, hi]).
C5_RootIsSound ==
    (/\ fn = "rational_range_pow"
     /\ SignedNumer(self.min) > 0
     /\ rhs.sign = "Pos" /\ rhs.numer = 1 /\ rhs.denom >= 2) =>
        /\ ~IsPanic(ret)
        /\ SignedNumer(ret.min) <= 0 \/ PowValueLe(ret.min, rhs.denom, self.min)
        /\ SignedNumer(ret.max) >= 0 /\ ValueLePow(self.max, ret.max, rhs.denom)

----------------------------------------------------------------------------
(* Claims on neoprene_comp, under SpecComp and SpecCompFair *)

Max(x, y) == IF x > y THEN x ELSE y

\* C1: neoprene_comp(A, A, max_iter) returns FailedToConverge, never Less
\* or Greater, for every tree A, Sums with negative coefficients included.
C1_SameTreeDiverges ==
    (pc = "done" /\ a = b /\ result # "panic") => result = "FailedToConverge"

\* C2: in every round the driver returns Greater when a_range.min >
\* b_range.max, otherwise Less when a_range.max < b_range.min, and only
\* otherwise FailedToConverge when iter > max_iter; so intervals disjoint at
\* iter = 3 give Less or Greater in the first round for every max_iter.
C2_SeparationBeforeBudget ==
    [][pc = "decide" =>
         /\ result' = (IF Rational_gt(a_range.min, b_range.max) THEN "Greater"
                       ELSE IF Rational_lt(a_range.max, b_range.min) THEN "Less"
                       ELSE IF current_iterations > max_iterations
                            THEN "FailedToConverge"
                       ELSE "none")
         /\ (/\ current_iterations = 3
             /\ \/ Rational_gt(a_range.min, b_range.max)
                \/ Rational_lt(a_range.max, b_range.min)) =>
                (pc' = "done" /\ result' \in {"Less", "Greater"} /\ rounds' = 1)
      ]_vars

\* C2's case: a budget below 3 and intervals disjoint at iter = 3
C2_Witness ==
    /\ pc = "done" /\ max_iterations = 1 /\ rounds = 1
    /\ result = "Greater"
    /\ Rational_gt(a_range.min, b_range.max)

\* C3: neoprene_comp terminates; without separation it returns
\* FailedToConverge after exactly max(1, max_iter - 1) rounds; the rounds
\* use iter = 3, 4, ... in this order and none uses an iter above
\* max(3, max_iter + 1).
C3_TerminatesWithinBudget ==
    /\ [](pc = "decide" =>
             /\ current_iterations = rounds + 2
             /\ current_iterations <= Max(3, max_iterations + 1))
    /\ []((pc = "done" /\ result = "FailedToConverge") =>
             rounds = Max(1, max_iterations - 1))
    /\ [][current_iterations' \in {current_iterations, current_iterations + 1}]_vars
    /\ <>(pc = "done")

\* C3's case: a comparison that runs out of a budget of 3 after 2 rounds
C3_Witness ==
    /\ pc = "done" /\ result = "FailedToConverge"
    /\ max_iterations = 3 /\ rounds = 2 /\ current_iterations = 4

----------------------------------------------------------------------------
(* Claims on the canonical form of Rational, under SpecCanon *)

\* C11: every Rational a core operation produces from canonical operands
\* is canonical: gcd(numer, denom) = 1, denom > 0, and zero has sign Pos.
C11_CoreOperationsKeepCanonical ==
    (fn # "none" /\ ~IsPanic(ret)) => is_canonical(ret)

\* the operations of C11 one at a time: which of them keep the canonical form
C11_KeptBy(op) == (fn = op /\ ~IsPanic(ret)) => is_canonical(ret)

----------------------------------------------------------------------------
(* Claims on ByzNodeVec::insert, under SpecInsert *)

\* C14: after any sequence of insert calls on an empty Sum or Prod vector
\* the term list is strictly increasing under the ByzNode order, and no two
\* entries hold the same base term.
C14_TermListStrictlyIncreasing ==
    /\ \A i \in 1..(Len(self.vec) - 1) :
           ByzNode_cmp(self.vec[i][2], self.vec[i + 1][2]) = "Less"
    /\ \A i, j \in 1..Len(self.vec) :
           i # j => /\ self.vec[i][2] # self.vec[j][2]
                    /\ ~ByzNode_eq(self.vec[i][2], self.vec[j][2])

\* C14's case: three inserts that left three terms, and three inserts of
\* which one met its term in the list
C14_Witness ==
    /\ param = 3 /\ Len(self.vec) = 3
    /\ self.vec[1][2] = Pi /\ self.vec[3][2].type = "Pow"

\* C15: after any sequence of insert calls no entry of the term list has a
\* coefficient or exponent equal to zero.
C15_NoZeroWeight ==
    \A i \in 1..Len(self.vec) : self.vec[i][1].numer # 0

----------------------------------------------------------------------------
(* Claims on the builders of generate_byznode_utils, under SpecGBU *)

\* the orders a list of n contributions can be supplied in
Orders(n) == {p \in [1..n -> 1..n] : \A i, j \in 1..n : p[i] = p[j] => i = j}

Reordered(contributions, p) ==
    [i \in 1..Len(contributions) |-> contributions[p[i]]]

\* the node add or mul builds from the arguments of the call in the state,
\* with the contributions in order p
BuiltInOrder(p) ==
    IF fn = "add" THEN GBU_add(param, Reordered(rhs, p))
    ELSE GBU_mul(param, Reordered(rhs, p))

\* C12: two Sums (or Prods) built by add (or mul) from the same rational
\* tail and the same contributions in different orders are == and compare
\* Equal.
C12_OrderOfInsertionIrrelevant ==
    fn \in {"add", "mul"} =>
        \A p \in Orders(Len(rhs)) :
            /\ ByzNode_eq(ret, BuiltInOrder(p))
            /\ ByzNode_cmp(ret, BuiltInOrder(p)) = "Equal"

\* C12 for contributions of pairwise different terms
C12_WithoutMerge ==
    (/\ fn \in {"add", "mul"}
     /\ \A i, j \in 1..Len(rhs) : i # j => rhs[i][2] # rhs[j][2]) =>
        \A p \in Orders(Len(rhs)) :
            /\ ByzNode_eq(ret, BuiltInOrder(p))
            /\ ByzNode_cmp(ret, BuiltInOrder(p)) = "Equal"

\* C16: add or mul whose term list ends up empty returns the Rat node of
\* its rational tail, not an Add or Mul node with an empty list.
C16_EmptyListIsRat ==
    (fn \in {"add", "mul"} /\ Len(ret.vec) = 0) =>
        ret.type \notin {"Add", "Mul"}

\* C17: pow(base, exp) returns Rat(1) for exp = 0 and base for exp = 1; no
\* Pow node with exponent 0 or 1 is constructed.
C17_PowReducesTrivialExponents ==
    fn = "pow" =>
        /\ is_zero(self.exp) => (ret.type # "Pow" /\ ret # self.base)
        /\ is_one(self.exp) => ret = self.base
        /\ ret.type = "Pow" => (~is_zero(ret.exp) /\ ~is_one(ret.exp))

\* C18: no term of a Sum built by add is a Rat or a Sum, and no term of a
\* Prod built by mul is a Rat or a Prod.
C18_NoSameKindChild ==
    /\ fn = "add" => \A i \in 1..Len(ret.vec) : ret.vec[i][2].type # "Add"
    /\ fn = "mul" => \A i \in 1..Len(ret.vec) : ret.vec[i][2].type # "Mul"

----------------------------------------------------------------------------
(* Claims on == and cmp of ByzNode, under SpecOrd *)

Reverse(o) == IF o = "Less" THEN "Greater" ELSE IF o = "Greater" THEN "Less" ELSE o

\* cmp(a, b) is the reverse of cmp(b, a)
CmpIsAntisymmetric == pc = "cmp" => result = Reverse(ByzNode_cmp(b, a))

\* cmp is transitive: a <= b and b <= c give a <= c, strictly when one of
\* the two is strict
CmpIsTransitive ==
    pc = "cmp" =>
        \A c \in BuiltNodes :
            (result # "Greater" /\ ByzNode_cmp(b, c) # "Greater") =>
                /\ ByzNode_cmp(a, c) # "Greater"
                /\ (result = "Less" \/ ByzNode_cmp(b, c) = "Less") =>
                       ByzNode_cmp(a, c) = "Less"

\* nodes of different variants are ordered Const < Sum < Prod < Pow
CmpOrdersVariants ==
    (pc = "cmp" /\ a.type # b.type) =>
        result = usize_cmp(to_identifying_type_int(a), to_identifying_type_int(b))

\* a.cmp(b) is Equal exactly when a == b
EqAgreesWithCmp ==
    /\ pc = "cmp" => ((result = "Equal") <=> ByzNode_eq(a, b))
    /\ pc = "eq" => ((result = "true") <=> (ByzNode_cmp(a, b) = "Equal"))

\* C13: on nodes built through the builders a.cmp(b) is Equal if and only
\* if a == b, and cmp is a total order (antisymmetric, transitive) that
\* orders different variants as Const < Sum < Prod < Pow.
C13_EqAgreesWithTotalOrder ==
    /\ EqAgreesWithCmp
    /\ CmpIsAntisymmetric
    /\ CmpIsTransitive
    /\ CmpOrdersVariants

----------------------------------------------------------------------------
(* Claims on the checks of the power functions, under SpecPow *)

\* an exponent of the supported range: simplified, not zero, at most 8
SupportedExp(e) ==
    /\ is_simplified(e)
    /\ ~is_zero(e)
    /\ SignedNumer(e) <= 8 * e.denom

\* the base of the call in the state has a negative endpoint
NegativeBase ==
    IF fn = "rational_range_pow"
    THEN SignedNumer(self.min) < 0 \/ SignedNumer(self.max) < 0
    ELSE SignedNumer(self.min) < 0

\* C19: rational_range_pow and neoprene_rational_pow_raw panic whenever an
\* endpoint of the base is negative and the denominator of the exponent is
\* even, and when the exponent is 0 or above 8; a negative base with an
\* odd-denominator exponent of the supported range is not rejected by the
\* test for a non-real root.
C19_RejectsOnlyNonRealRoots ==
    fn \in {"rational_range_pow", "neoprene_rational_pow_raw"} =>
        /\ (NegativeBase /\ rhs.denom % 2 = 0) => IsPanic(ret)
        /\ (rhs.numer = 0 \/ SignedNumer(rhs) > 8 * rhs.denom) => IsPanic(ret)
        /\ (NegativeBase /\ rhs.denom % 2 = 1 /\ SupportedExp(rhs)) =>
               IF fn = "rational_range_pow"
               THEN ~range_pow_rejects(self, rhs)
               ELSE ~rational_pow_raw_rejects(self.min, rhs)

\* the parts of C19 one at a time
C19_EvenDenominatorPanics ==
    (/\ fn \in {"rational_range_pow", "neoprene_rational_pow_raw"}
     /\ NegativeBase /\ rhs.denom % 2 = 0) => IsPanic(ret)

C19_ZeroAndLargeExponentPanic ==
    (/\ fn \in {"rational_range_pow", "neoprene_rational_pow_raw"}
     /\ (rhs.numer = 0 \/ SignedNumer(rhs) > 8 * rhs.denom)) => IsPanic(ret)

\* two results are the same: both a panic, or intervals of equal endpoints
SameRange(x, y) ==
    IF IsPanic(x) \/ IsPanic(y) THEN IsPanic(x) /\ IsPanic(y)
    ELSE ValueEq(x.min, y.min) /\ ValueEq(x.max, y.max)

\* the interval rational_range_pow gives for the exponent p/q of -p/q
ForPositiveExponent ==
    rational_range_pow(self, negate(rhs), param.newton_iterations, param.limit_denom)

\* C20: for 0 < lo <= hi and a negative exponent -p/q of the supported
\* range, -1 included, rational_range_pow returns the reciprocal of the
\* interval it gives for p/q; for -1 that is [1/hi, 1/lo].
C20_NegativeExponentReciprocates ==
    (/\ fn = "rational_range_pow"
     /\ SignedNumer(self.min) > 0
     /\ rhs.sign = "Neg" /\ SupportedExp(rhs)
     /\ ~IsPanic(ForPositiveExponent)) =>
        SameRange(ret, reciprocate(ForPositiveExponent))

\* C20 for the negative exponents other than -1
C20_ExceptMinusOne ==
    (/\ fn = "rational_range_pow"
     /\ SignedNumer(self.min) > 0
     /\ rhs.sign = "Neg" /\ SupportedExp(rhs) /\ ~is_one(rhs)
     /\ ~IsPanic(ForPositiveExponent)) =>
        SameRange(ret, reciprocate(ForPositiveExponent))

----------------------------------------------------------------------------
(* Claims on RationalRange::descriptor, under SpecDescriptor *)

\* the interval has min > max as values
Inverted(r) == ~ValueLe(r.min, r.max)

\* C21: descriptor panics for every interval with min > max, whatever the
\* signs of the endpoints; it returns a classification only when
\* min <= max.
C21_DescriptorRejectsInverted ==
    (fn = "descriptor" /\ Inverted(self)) => ret = "panic"

\* C21, for min non-negative and max negative only: descriptor panics
C21_MixedSignsPanic ==
    (fn = "descriptor" /\ ~is_negative(self.min) /\ is_negative(self.max)) =>
        ret = "panic"

----------------------------------------------------------------------------
(* Claims on the interval invariant, under SpecRange *)

\* C22: for intervals I, J with min <= max, the result of I += J, of
\* I *= J, of I.reciprocate() (when it does not panic) and of
\* I.to_with_denominator(D) has min <= max.
C22_OperationsKeepMinLeMax ==
    (fn # "none" /\ ~IsPanic(ret)) => ValueLe(ret.min, ret.max)

\* C22, for one operation: its result has min <= max
C22_KeptBy(op) ==
    (fn = op /\ ~IsPanic(ret)) => ValueLe(ret.min, ret.max)

----------------------------------------------------------------------------
(* Claims on the state of neoprene_comp, under SpecComp *)

\* C23: throughout neoprene_comp denom_cap = 6091 * 3^(iter - 3): iter
\* starts at 3 and denom_cap at 6091, a refinement step adds exactly 1 to
\* iter and multiplies denom_cap by exactly 3, and both operands of one
\* round are evaluated with the same (iter, denom_cap).
C23_DenomCapFollowsIter ==
    /\ current_iterations = 3 /\ current_limit_denom = 6091
    /\ [](current_limit_denom = 6091 * IntPow(3, current_iterations - 3))
    /\ [][(\/ current_iterations' # current_iterations
           \/ current_limit_denom' # current_limit_denom) =>
              /\ current_iterations' = current_iterations + 1
              /\ current_limit_denom' = current_limit_denom * 3]_vars
    /\ [][pc = "evaluate" =>
              /\ a_range' = neoprene_byznode(a, current_iterations)
              /\ b_range' = neoprene_byznode(b, current_iterations)
              /\ current_iterations' = current_iterations
              /\ current_limit_denom' = current_limit_denom]_vars

\* C23's case: the second round, after one refinement step
C23_Witness ==
    /\ pc = "decide" /\ rounds = 2
    /\ current_iterations = 4 /\ current_limit_denom = 18273

----------------------------------------------------------------------------
(* Claims on the evaluation of a Sum, under SpecComp *)

\* min <= max as values; the cross-multiplication is divided by the gcd of
\* the denominators
WellFormed(r) ==
    LET g == gcd(r.min.denom, r.max.denom)
    IN  SignedNumer(r.min) * (r.max.denom \div g)
            <= SignedNumer(r.max) * (r.min.denom \div g)

\* the terms of the Sum a whose interval, evaluated with wellformed
\* min <= max, is scaled by a coefficient c satisfying Coeff(c) to an
\* interval with min > max
BadlyScaled(Coeff(_)) ==
    {i \in 1..Len(a.vec) :
        LET t == neoprene_byznode(a.vec[i][2], current_iterations)
            c == a.vec[i][1]
        IN  /\ ~IsPanic(t) /\ WellFormed(t)
            /\ Coeff(c)
            /\ ~WellFormed(scale_range(t, c))}

\* C24: in the evaluation of a Sum, every term interval with lo <= hi is
\* scaled by its non-zero coefficient, negative ones included, to an
\* interval with min <= max, and the interval neoprene_add returns has
\* min <= max.
C24_SumKeepsMinLeMax ==
    (pc = "decide" /\ a.type = "Add") =>
        /\ BadlyScaled(LAMBDA c : ~is_zero(c)) = {}
        /\ WellFormed(a_range)

\* C24, for the positive coefficients only
C24_PositiveCoefficients ==
    (pc = "decide" /\ a.type = "Add"
        /\ \A i \in 1..Len(a.vec) : ~is_negative(a.vec[i][1])) =>
        /\ BadlyScaled(LAMBDA c : ~is_zero(c) /\ ~is_negative(c)) = {}
        /\ WellFormed(a_range)

----------------------------------------------------------------------------
(* Claims on the series of e and pi, under SpecSeries *)

RECURSIVE Fact(_)
Fact(n) == IF n = 0 THEN 1 ELSE n * Fact(n - 1)

\* x is the positive fraction n / d: both in lowest terms are the same
IsFraction(x, n, d) ==
    /\ x.sign = "Pos"
    /\ x.numer \div gcd(x.numer, x.denom) = n \div gcd(n, d)
    /\ x.denom \div gcd(x.numer, x.denom) = d \div gcd(n, d)

\* the value of x is below that of y
StrictlyBelow(x, y) ==
    LET g == gcd(x.denom, y.denom)
    IN  SignedNumer(x) * (y.denom \div g) < SignedNumer(y) * (x.denom \div g)

\* the numerator over m! of 1/0! + 1/1! + ... + 1/m!, which is
\* 2 + the sum over n = 2..m of 1/n!
RECURSIVE EulerPartialNumer(_)
EulerPartialNumer(m) == IF m = 0 THEN 1 ELSE m * EulerPartialNumer(m - 1) + 1

EulerCalled == fn \in {"neoprene_transitive_euler", "compute_euler"}

\* the lower endpoint is the partial sum up to 1/(iter+2)!
LowerIsPartialSum ==
    IsFraction(ret.range.min, EulerPartialNumer(ret.k + 2), Fact(ret.k + 2))

\* C25 as stated: the interval of e before coarsening has the partial sum
\* 2 + sum over n = 2..iter+2 of 1/n! as lower endpoint and that lower
\* endpoint plus exactly 3/(iter+2)! as upper endpoint.
C25_UpperIsLowerPlusThreeOverFactorial ==
    EulerCalled =>
        /\ ~IsPanic(ret.range)
        /\ LowerIsPartialSum
        /\ IsFraction(ret.range.max, EulerPartialNumer(ret.k + 2) + 3,
                      Fact(ret.k + 2))

\* C25 amended: the lower endpoint is that partial sum and the upper one is
\* the lower plus lower/(iter+3)!, which lies above the lower endpoint and
\* not above lower + 3/(iter+2)!.
C25_UpperIsLowerPlusLowerOverFactorial ==
    EulerCalled =>
        /\ ~IsPanic(ret.range)
        /\ LowerIsPartialSum
        /\ IsFraction(ret.range.max,
                      EulerPartialNumer(ret.k + 2) * (Fact(ret.k + 3) + 1),
                      Fact(ret.k + 2) * Fact(ret.k + 3))
        /\ StrictlyBelow(ret.range.min, ret.range.max)
        /\ ~StrictlyBelow(Rat("Pos", EulerPartialNumer(ret.k + 2) + 3,
                              Fact(ret.k + 2)),
                          ret.range.max)

\* C25's case: compute_euler with 3 iterations, [163/60, 117523/43200]
C25_Witness ==
    /\ fn = "compute_euler" /\ ret.k = 3
    /\ ret.range = Range(Rat("Pos", 163, 60), Rat("Pos", 117523, 43200))

\* the least common denominator of the terms 1 .. K of the series of pi,
\* each written 1/(n(n+1)(2n+1)) = 4/((2n)(2n+1)(2n+2))
RECURSIVE PiDenom(_)
PiDenom(K) ==
    IF K = 0 THEN 1
    ELSE LET c == K * (K + 1) * (2 * K + 1)
             d == PiDenom(K - 1)
         IN  d * (c \div gcd(d, c))

\* the numerator over D of the partial sum S_n
RECURSIVE PiNumer(_, _)
PiNumer(n, D) ==
    IF n = 0 THEN 3 * D
    ELSE PiNumer(n - 1, D)
         + (IF n % 2 = 1 THEN 1 ELSE -1) * (D \div (n * (n + 1) * (2 * n + 1)))

\* x is the partial sum S_n
IsPiPartialSum(x, n) == IsFraction(x, PiNumer(n, PiDenom(n)), PiDenom(n))

PiCalled == fn \in {"neoprene_transitive_pi", "compute_pi"}

\* C26: the two endpoints of pi before coarsening are the partial sums S_K
\* and S_(K+1) of 3 + sum of (-1)^(n+1)*4/((2n)(2n+1)(2n+2)), K = 8*iter in
\* compute_pi; min is the one of even index, max the one of odd index, and
\* min < max for K of either parity, so RationalRange::from does not panic.
C26_PiEndpointsArePartialSums ==
    PiCalled =>
        /\ ~IsPanic(ret.range)
        /\ (fn = "compute_pi" => ret.k = 8 * param.newton_iterations)
        /\ IsPiPartialSum(ret.range.min, IF ret.k % 2 = 0 THEN ret.k ELSE ret.k + 1)
        /\ IsPiPartialSum(ret.range.max, IF ret.k % 2 = 0 THEN ret.k + 1 ELSE ret.k)
        /\ StrictlyBelow(ret.range.min, ret.range.max)

\* C26's case: compute_pi with K = 8, and an odd K in neoprene_transitive
C26_Witness ==
    /\ fn = "compute_pi" /\ ret.k = 8
    /\ ret.range = Range(Rat("Pos", 801821, 255255), Rat("Pos", 91424611, 29099070))

C26_WitnessOdd ==
    /\ fn = "neoprene_transitive_pi" /\ ret.k = 3
    /\ ret.range = Range(Rat("Pos", 989, 315), Rat("Pos", 1321, 420))

----------------------------------------------------------------------------
(* Claims on initial_root_bounds, under SpecRootBounds *)

\* floor(n^(1/q)): the r with r^q <= n < (r+1)^q
FloorRoot(n, q) ==
    CHOOSE r \in 0..n :
        /\ IntPow(r, q) <= n
        /\ \A t \in (r + 1)..n : IntPow(t, q) > n

\* C27: for a positive base n/d, simplified or not, and a root q >= 1,
\* initial_root_bounds returns without a panic
\* [floor(n^(1/q)) / (floor(d^(1/q)) + 1), (floor(n^(1/q)) + 1) / floor(d^(1/q))],
\* with lo <= hi and lo^q <= n/d <= hi^q.
C27_InitialBracketEncloses ==
    fn = "initial_root_bounds" =>
        /\ ~IsPanic(ret)
        /\ ret.min = Rat("Pos", FloorRoot(self.numer, param),
                         FloorRoot(self.denom, param) + 1)
        /\ ret.max = Rat("Pos", FloorRoot(self.numer, param) + 1,
                         FloorRoot(self.denom, param))
        /\ ValueLe(ret.min, ret.max)
        /\ PowValueLe(ret.min, param, self)
        /\ ValueLePow(self, ret.max, param)

\* C27's case: the square root of 9/4 (3/2) gets the bracket [3/3, 4/2]
C27_Witness ==
    /\ fn = "initial_root_bounds"
    /\ self = Rat("Pos", 9, 4) /\ param = 2
    /\ ret = Range(Rat("Pos", 3, 3), Rat("Pos", 4, 2))

----------------------------------------------------------------------------
(* Claims on the two orders of the operands of neoprene_comp, under
   SpecComp *)

\* the finished call agrees with neoprene_comp(b, a, max_iterations):
\* Greater against Less, FailedToConverge against FailedToConverge, in the
\* same round
AgreesWithSwappedCall ==
    LET swapped == neoprene_comp(b, a, max_iterations)
    IN  /\ result = "Greater" <=> swapped.result = "Less"
        /\ result = "Less" <=> swapped.result = "Greater"
        /\ result = "FailedToConverge" <=> swapped.result = "FailedToConverge"
        /\ rounds = swapped.rounds

\* C28: neoprene_comp(A, B, max_iter) returns Greater if and only if
\* neoprene_comp(B, A, max_iter) returns Less, one returns FailedToConverge
\* if and only if the other does, and the two calls decide in the same
\* round.
C28_SwappedOperandsSwapResult ==
    pc = "done" => AgreesWithSwappedCall

\* C28, for the calls whose last intervals both have min <= max
C28_ForWellFormedIntervals ==
    (/\ pc = "done" /\ result # "panic"
     /\ WellFormed(a_range) /\ WellFormed(b_range)) =>
        AgreesWithSwappedCall

\* the state machine and the function give the same result and rounds
CompLoopIsNeopreneComp ==
    pc = "done" =>
        neoprene_comp(a, b, max_iterations) = [result |-> result, rounds |-> rounds]

=============================================================================
